---- MODULE Spec2Model ----
(***************************************************************************)
(* Download-ahead cache of google_photos_api.py: the per-id status table   *)
(* (download_status), the cache files (video_cache/<id>.mp4), the          *)
(* background download workers, the smart-stream / clear-cache /           *)
(* heartbeat request handlers and the inactivity janitor.                  *)
(*                                                                         *)
(* Threads: every download worker and the janitor are Python threads and   *)
(* interleave with everything at statement granularity.  The request       *)
(* handlers are "async def" bodies without an await, so under the single   *)
(* uvicorn event loop one handler body runs at a time (mode = "loop").     *)
(* mode = "threads" lets the handler bodies interleave as well; it is the   *)
(* setting for statements about concurrent calls of start_full_download.   *)
(***************************************************************************)
EXTENDS Integers, Sequences, FiniteSets, TLC

\* ------------------------------------------------------------------ bounds
MaxTime == 22
ChunkSize == 19

\* ------------------------------------------------------- program constants
CACHE_CLEANUP_SECONDS == 20
VeryRecentSeconds == 5
CompletePercent == 95

\* ------------------------------------------------------------ environment
Ids == {"a"}
\* a file id that file_cache does not hold
Unknown == {"x"}
AllIds == Ids \cup Unknown
Tasks == {"t1", "t2"}
\* download_worker threads that can be alive at once
WorkerSlots == {1, 2}

\* size_bytes of the catalog entry (file_cache[id]['size_bytes'])
DeclaredSize == [i \in Ids |-> 20]
\* number of bytes the remote source may really hold for an id
RemoteSizes == {20, 38}
\* a request: reset flag, and requested_start_byte and the last byte of
\* the Range header (NoRange: no header, or an open end "bytes=s-")
NoRange == -1
Requests ==
    {[reset |-> FALSE, range |-> NoRange, rend |-> NoRange],
     [reset |-> TRUE, range |-> NoRange, rend |-> NoRange],
     [reset |-> FALSE, range |-> 0, rend |-> NoRange],
     [reset |-> FALSE, range |-> 19, rend |-> NoRange],
     [reset |-> FALSE, range |-> 18, rend |-> 18]}
TickDeltas == {21}

VARIABLES
    now,        \* time.time()
    mode,       \* "loop" or "threads": how handler bodies are scheduled
    remote,     \* per id: length of the object the remote source holds
    entry,      \* download_status[id]
    lock,       \* download_locks[id]: "free" or the task holding it
    blob,       \* cache file of the id: its st_size, NoFile when absent
    workers,    \* the running download_worker threads, oldest first
    task,       \* request handlers
    jan,        \* cleanup_inactive_cache: the janitor's sweep
    ended,      \* per id: a worker of the id has ended since the concurrent calls were issued
    fresh       \* per id: the per-id reset zeroed the entry mid-download and no download has begun since

vars == <<now, mode, remote, entry, lock, blob, workers, task, jan, ended, fresh>>

\* ------------------------------------------------------------ the entries
ZeroEntry(la) ==
    [downloading |-> FALSE, completed |-> FALSE, bytes_downloaded |-> 0,
     total_bytes |-> 0, last_access |-> la]

IsZeroed(e) ==
    /\ ~e.downloading /\ ~e.completed
    /\ e.bytes_downloaded = 0 /\ e.total_bytes = 0

\* ------------------------------------------------------------- the files
NoFile == -1
Exists(id) == blob[id] # NoFile
CachedSize(id) == blob[id]

\* unlink: the path is gone; a worker that has the file open keeps writing
\* to the unlinked file, which no path names any more
Detach(ws, id) ==
    [k \in DOMAIN ws |-> IF ws[k].id = id THEN [ws[k] EXCEPT !.attached = FALSE] ELSE ws[k]]

\* the file of the id is held open by a running worker, or by a response
\* body that is being read from it
HeldOpen(id) ==
    /\ Exists(id)
    /\ \/ \E k \in DOMAIN workers : workers[k].id = id /\ workers[k].attached
       \/ \E t \in DOMAIN task :
              task[t].id = id /\ task[t].pc = "stream" /\ ~task[t].cut

Min(a, b) == IF a <= b THEN a ELSE b
Max(a, b) == IF a >= b THEN a ELSE b

Remove(s, k) == SubSeq(s, 1, k - 1) \o SubSeq(s, k + 1, Len(s))

\* --------------------------------------------------------------- workers
NewWorker(id) == [pc |-> "read", id |-> id, size |-> 0, bytes |-> 0, attached |-> FALSE]
\* a response that reports no percentage
NoProgress == -1

IdleTask ==
    [pc |-> "idle", id |-> "a", range |-> NoRange, rend |-> NoRange, start |-> 0,
     call |-> "none", src |-> "none", status |-> 0, clen |-> 0,
     progress |-> NoProgress, seen |-> NoFile, cut |-> FALSE]

IdleJan == [pc |-> "sleep", todo |-> {}, id |-> "a"]

\* concurrent calls of start_full_download for the id have been issued and
\* not all of the callers have gone on yet
InStart(id) ==
    /\ mode = "threads"
    /\ \E t \in Tasks : task[t].id = id /\ task[t].pc \in {"start", "start_set", "proxy"}

WorkerEnded(id) == IF InStart(id) THEN [ended EXCEPT ![id] = TRUE] ELSE ended

Active(wk) == wk.pc \in {"read", "get", "open", "write"}
ActiveWorkers(id) == {k \in DOMAIN workers : workers[k].id = id /\ Active(workers[k])}

InitWith(m) ==
    /\ now = 1
    /\ mode = m
    /\ remote \in [Ids -> RemoteSizes]
    /\ entry = [i \in AllIds |-> ZeroEntry(0)]
    /\ lock = [i \in AllIds |-> "free"]
    /\ blob = [i \in AllIds |-> NoFile]
    /\ workers = <<>>
    /\ task = [t \in Tasks |-> IdleTask]
    /\ jan = IdleJan
    /\ ended = [i \in Ids |-> FALSE]
    /\ fresh = [i \in Ids |-> FALSE]

Init == InitWith("loop")
InitThreads == InitWith("threads")

Tick ==
    /\ \E d \in TickDeltas :
        /\ now + d <= MaxTime
        /\ now' = now + d
    /\ UNCHANGED <<mode, remote, entry, lock, blob, workers, task, jan, ended>>
    /\ UNCHANGED fresh

\* download_worker, line 239: current_file_size is read from the entry
WorkerRead(k) ==
    /\ k \in DOMAIN workers
    /\ workers[k].pc = "read"
    /\ workers' = [workers EXCEPT ![k].pc = "get",
                                  ![k].size = entry[workers[k].id].total_bytes]
    /\ UNCHANGED <<now, mode, remote, entry, lock, blob, task, jan, ended>>
    /\ UNCHANGED fresh

\* lines 242-252 and 312-317: the GET is answered; the Content-Length of
\* the response is adopted when it is present and differs
WorkerGet(k) ==
    /\ k \in DOMAIN workers
    /\ workers[k].pc = "get"
    /\ LET id == workers[k].id
           expected == workers[k].size
       IN \E ok \in BOOLEAN, hasLength \in BOOLEAN :
            IF ~ok
            THEN \* HTTP status # 200 (line 313) or the GET raised (line 317)
                 /\ entry' = [entry EXCEPT ![id].downloading = FALSE]
                 /\ workers' = Remove(workers, k)
                 /\ ended' = WorkerEnded(id)
            ELSE /\ entry' = IF hasLength /\ remote[id] # expected
                             THEN [entry EXCEPT ![id].total_bytes = remote[id]]
                             ELSE entry
                 /\ workers' = [workers EXCEPT ![k].pc = "open", ![k].size = 0]
                 /\ UNCHANGED ended
    /\ UNCHANGED <<now, mode, remote, lock, blob, task, jan>>
    /\ UNCHANGED fresh

\* line 253: open(cache_file, 'wb') creates the file or truncates the one
\* the path names
WorkerOpen(k) ==
    /\ k \in DOMAIN workers
    /\ workers[k].pc = "open"
    /\ blob' = [blob EXCEPT ![workers[k].id] = 0]
    /\ workers' = [workers EXCEPT ![k].pc = "write", ![k].attached = TRUE, ![k].bytes = 0]
    /\ UNCHANGED <<now, mode, remote, entry, lock, task, jan, ended>>
    /\ UNCHANGED fresh

\* lines 259-287: one chunk is written at the handle's position and the
\* progress is stored in the entry; after the last chunk the with-block
\* closes the file
WorkerWrite(k) ==
    /\ k \in DOMAIN workers
    /\ workers[k].pc = "write"
    /\ LET id == workers[k].id
           n == Min(ChunkSize, remote[id] - workers[k].bytes)
           done == workers[k].bytes + n
       IN /\ blob' = IF workers[k].attached
                     THEN [blob EXCEPT ![id] = Max(@, done)]
                     ELSE blob
          /\ workers' = IF done = remote[id]
                        THEN [workers EXCEPT ![k].pc = "mark_downloading",
                                             ![k].bytes = done, ![k].attached = FALSE]
                        ELSE [workers EXCEPT ![k].bytes = done]
          /\ entry' = [entry EXCEPT ![id].bytes_downloaded = done]
    /\ UNCHANGED <<now, mode, remote, lock, task, jan, ended>>
    /\ UNCHANGED fresh

\* line 304
WorkerMarkNotDownloading(k) ==
    /\ k \in DOMAIN workers
    /\ workers[k].pc = "mark_downloading"
    /\ entry' = [entry EXCEPT ![workers[k].id].downloading = FALSE]
    /\ ended' = WorkerEnded(workers[k].id)
    /\ workers' = [workers EXCEPT ![k].pc = "mark_completed"]
    /\ UNCHANGED <<now, mode, remote, lock, blob, task, jan>>
    /\ UNCHANGED fresh

\* line 305
WorkerMarkCompleted(k) ==
    /\ k \in DOMAIN workers
    /\ workers[k].pc = "mark_completed"
    /\ entry' = [entry EXCEPT ![workers[k].id].completed = TRUE]
    /\ ended' = WorkerEnded(workers[k].id)
    /\ workers' = Remove(workers, k)
    /\ UNCHANGED <<now, mode, remote, lock, blob, task, jan>>
    /\ UNCHANGED fresh

\* line 317: the except clause of download_worker clears the flag
ErrorSwallowed(e) == e
DownloadError(e) == [e EXCEPT !.downloading = FALSE]

\* lines 315-317: the open, a read of the response or a write raised
WorkerFail(k) ==
    /\ k \in DOMAIN workers
    /\ workers[k].pc \in {"open", "write"}
    /\ entry' = [entry EXCEPT ![workers[k].id] = DownloadError(@)]
    /\ ended' = WorkerEnded(workers[k].id)
    /\ workers' = Remove(workers, k)
    /\ UNCHANGED <<now, mode, remote, lock, blob, task, jan>>
    /\ UNCHANGED fresh

\* ------------------------------------------------------ request handlers
\* a handler that does not look the id up in the catalog
KnownIgnored(id) == TRUE

\* lines 1323, 1765 and 1852: id in file_cache
Known(id) == id \in Ids

\* raise HTTPException(status_code=404, detail="File not found")
NotFound(id) == [IdleTask EXCEPT !.pc = "resp", !.id = id, !.src = "not_found", !.status = 404]

CanBegin(t) ==
    /\ task[t].pc = "idle"
    /\ mode = "loop"
    /\ t = "t1"

Goto(t, label) == [task EXCEPT ![t].pc = label]

\* GET /api/files/smart-stream?id=..&reset=.. with or without a Range header
BeginStream(t) ==
    /\ CanBegin(t)
    /\ \E id \in AllIds, rq \in Requests :
        task' = [task EXCEPT ![t] =
                    IF ~Known(id) THEN NotFound(id)
                    ELSE [IdleTask EXCEPT
                            !.pc = IF rq.reset THEN "reset_unlink" ELSE "register",
                            !.id = id, !.range = rq.range, !.rend = rq.rend]]
    /\ UNCHANGED <<now, mode, remote, entry, lock, blob, workers, jan, ended>>
    /\ UNCHANGED fresh

\* lines 1340-1346: the cache file is removed when it exists; an error of
\* the removal (the file is held open) is printed and ignored
ResetUnlink(t) ==
    /\ task[t].pc = "reset_unlink"
    /\ LET id == task[t].id
       IN \/ /\ Exists(id)
             /\ blob' = [blob EXCEPT ![id] = NoFile]
             /\ workers' = Detach(workers, id)
          \/ /\ ~Exists(id) \/ HeldOpen(id)
             /\ UNCHANGED <<blob, workers>>
    /\ task' = Goto(t, "reset_entry")
    /\ UNCHANGED <<now, mode, remote, entry, lock, jan, ended>>
    /\ UNCHANGED fresh

\* lines 1349-1361: under the lock the entry is replaced by a zeroed one
ResetEntry(t) ==
    /\ task[t].pc = "reset_entry"
    /\ lock[task[t].id] = "free"
    /\ entry' = [entry EXCEPT ![task[t].id] = ZeroEntry(now)]
    /\ UNCHANGED ended
    /\ task' = Goto(t, "register")
    /\ UNCHANGED <<now, mode, remote, lock, blob, workers, jan>>
    /\ fresh' = [fresh EXCEPT ![task[t].id] = @ \/ entry[task[t].id].downloading]

\* register_user_access, lines 362-367
register_user_access(t) ==
    /\ task[t].pc = "register"
    /\ lock[task[t].id] = "free"
    /\ entry' = [entry EXCEPT ![task[t].id].last_access = now]
    /\ task' = Goto(t, IF task[t].range = NoRange THEN "can_serve" ELSE "range")
    /\ UNCHANGED <<now, mode, remote, lock, blob, workers, jan, ended>>
    /\ UNCHANGED fresh

\* line 1442: cached_size >= file_size * 0.95
NearlyComplete(cached, fileSize) == 100 * cached >= CompletePercent * fileSize

\* lines 1447-1457: the start offset the request is given
SeekStart(completed, requested, cached) ==
    IF completed THEN requested
    ELSE IF requested > cached - 1 THEN cached - 1
    ELSE requested

\* a range block that keeps the requested start when there is no cache file
RequestedStart(requested) == requested

\* lines 1459-1460: no cache file, the request starts from the beginning
NoCacheStart(requested) == 0

\* lines 1428-1459: the Range header against the cache file
RangeBlock(t) ==
    /\ task[t].pc = "range"
    /\ LET id == task[t].id
           cached == CachedSize(id)
           mark == NearlyComplete(cached, DeclaredSize[id]) /\ ~entry[id].completed
           completed == entry[id].completed \/ mark
       IN IF Exists(id)
          THEN /\ entry' = IF mark THEN [entry EXCEPT ![id].completed = TRUE] ELSE entry
               /\ task' = [task EXCEPT ![t].pc = "can_serve",
                              ![t].start = SeekStart(completed, task[t].range, cached)]
          ELSE /\ task' = [task EXCEPT ![t].pc = "can_serve",
                              ![t].start = NoCacheStart(task[t].range)]
               /\ UNCHANGED entry
    /\ UNCHANGED <<now, mode, remote, lock, blob, workers, jan, ended>>
    /\ UNCHANGED fresh

\* lines 1476-1495
CanServeBlock(t) ==
    /\ task[t].pc = "can_serve"
    /\ LET id == task[t].id
           cached == CachedSize(id)
           start == task[t].start
           forced == Min(start, cached - 1)
       IN IF ~Exists(id)
          THEN task' = Goto(t, "miss")
          ELSE IF entry[id].completed \/ start < cached
          THEN task' = Goto(t, "hit")
          ELSE task' = [task EXCEPT ![t].pc = IF forced >= 0 THEN "hit" ELSE "miss",
                                    ![t].start = forced]
    /\ UNCHANGED <<now, mode, remote, entry, lock, blob, workers, jan, ended>>
    /\ UNCHANGED fresh

\* line 1541: the last byte named by the Content-Range header of a response
\* served from the cache file
ContentRangeEnd(start, remaining, fileSize) == Min(start + remaining - 1, fileSize - 1)

\* line 1559: the response carries a Content-Range header
HasContentRange(start, remaining, fileSize) == start > 0 \/ remaining < fileSize

\* line 1560: the total after "/" in the Content-Range header is file_size,
\* the size of the catalog entry
ContentRangeTotal(id) == DeclaredSize[id]

\* (n / d) * 100 as the "%.1f" formats print it, in tenths of a percent
PercentTenths(n, d) == (2000 * n + d) \div (2 * d)

\* get_download_progress, lines 323-355: the 'progress' it returns
get_download_progress(e) ==
    IF e.completed THEN 1000
    ELSE IF e.downloading
         THEN IF e.total_bytes > 0
              THEN Min(PercentTenths(e.bytes_downloaded, e.total_bytes), 1000)
              ELSE 0
         ELSE 0

\* line 1544: cache_progress_percent of the X-Cache-Progress header
cache_progress_percent(cachedSize, fileSize) == PercentTenths(cachedSize, fileSize)

\* lines 1497-1568: the response served from the cache file.  The stat of a
\* file that is gone raises, which the handler turns into a 500.
ServeHit(t) ==
    /\ task[t].pc = "hit"
    /\ LET id == task[t].id
           start == task[t].start
           remaining == Min(CachedSize(id) - start, DeclaredSize[id] - start)
       IN IF ~Exists(id)
          THEN /\ task' = [task EXCEPT ![t].pc = "resp", ![t].src = "error", ![t].status = 500]
               /\ UNCHANGED entry
          ELSE /\ entry' = [entry EXCEPT ![id].last_access = now]
               /\ task' = [task EXCEPT ![t].pc = "resp", ![t].src = "blob",
                              ![t].status = IF start > 0 THEN 206 ELSE 200,
                              ![t].clen = remaining,
                              ![t].progress =
                                  cache_progress_percent(CachedSize(id), DeclaredSize[id])]
    /\ UNCHANGED <<now, mode, remote, lock, blob, workers, jan, ended>>
    /\ UNCHANGED fresh

\* line 1646: a seek that cannot be served is sent back to the beginning
AnyRange(range, start) == range # NoRange
SeekRedirect(range, start) == range # NoRange /\ start > 0

\* lines 1645-1656: the redirect of a seek that cannot be served, else the
\* unlocked look at the flags before start_full_download is called
ServeMiss(t) ==
    /\ task[t].pc = "miss"
    /\ LET id == task[t].id
       IN IF SeekRedirect(task[t].range, task[t].start)
          THEN task' = [task EXCEPT ![t].pc = "resp", ![t].src = "redirect", ![t].status = 302]
          ELSE IF ~entry[id].downloading /\ ~entry[id].completed
          THEN task' = Goto(t, "start")
          ELSE task' = Goto(t, "proxy")
    /\ UNCHANGED <<now, mode, remote, entry, lock, blob, workers, jan, ended>>
    /\ UNCHANGED fresh

\* a start_full_download that does not wait for the lock
LockIgnored(id) == TRUE

\* line 222: with download_locks[file_id]
LockFree(id) == lock[id] = "free"

\* a start_full_download that skips for a running download only
DownloadingOnly(e) == e.downloading

\* line 224: already downloading or completed
AlreadyStarted(e) == e.downloading \/ e.completed

\* start_full_download, lines 222-226: the lock is taken and the flags are
\* looked at; nothing is done when a download runs or has completed
StartCheck(t) ==
    /\ task[t].pc = "start"
    /\ LockFree(task[t].id)
    /\ LET id == task[t].id
       IN IF AlreadyStarted(entry[id])
          THEN /\ task' = [task EXCEPT ![t].pc = "proxy", ![t].call = "noop"]
               /\ UNCHANGED lock
          ELSE /\ task' = Goto(t, "start_set")
               /\ lock' = [lock EXCEPT ![id] = t]
    /\ UNCHANGED <<now, mode, remote, entry, blob, workers, jan, ended>>
    /\ UNCHANGED fresh

\* line 232: the with-block of line 222 ends and the caller gives the lock up
LockKept(holder, t) == holder
LockReleased(holder, t) == IF holder = t THEN "free" ELSE holder

\* lines 228-232 and 320: the flags are set, the lock is released and the
\* worker thread is started
StartBegin(t) ==
    /\ task[t].pc = "start_set"
    /\ Len(workers) < Cardinality(WorkerSlots)
    /\ LET id == task[t].id
       IN /\ entry' = [entry EXCEPT ![id].downloading = TRUE,
                                    ![id].total_bytes = DeclaredSize[id]]
          /\ lock' = [lock EXCEPT ![id] = LockReleased(lock[id], t)]
          /\ workers' = Append(workers, NewWorker(id))
    /\ task' = [task EXCEPT ![t].pc = "proxy", ![t].call = "begin"]
    /\ UNCHANGED <<now, mode, remote, blob, jan, ended>>
    /\ fresh' = [fresh EXCEPT ![task[t].id] = FALSE]

\* line 1665: the first byte of the Range header of the GET sent to the
\* remote source
FetchFrom(t) == task[t].start

\* lines 1662-1723: the request is answered from the remote source
ServeProxy(t) ==
    /\ task[t].pc = "proxy"
    /\ entry' = [entry EXCEPT ![task[t].id].last_access = now]
    /\ \E ok \in BOOLEAN :
        task' = [task EXCEPT ![t].pc = "resp", ![t].call = "none",
                    ![t].src = IF ok THEN "remote" ELSE "error",
                    ![t].status = IF ok THEN 206 ELSE 500]
    /\ UNCHANGED <<now, mode, remote, lock, blob, workers, jan, ended>>
    /\ UNCHANGED fresh

\* serve_from_cache can begin: the open of a file that is gone and the
\* seek to a negative offset raise
CanStream(t) ==
    /\ task[t].src = "blob"
    /\ Exists(task[t].id)
    /\ task[t].start >= 0

\* serve_from_cache, lines 1508-1518: the handler has returned and the body
\* generator opens the cache file, seeks to the start offset and takes the
\* length of the file once, before its read loop
StreamOpen(t) ==
    /\ task[t].pc = "resp"
    /\ CanStream(t)
    /\ task' = [task EXCEPT ![t].pc = "stream", ![t].seen = CachedSize(task[t].id)]
    /\ UNCHANGED <<now, mode, remote, entry, lock, blob, workers, jan, ended>>
    /\ UNCHANGED fresh

\* a reader that takes the length of the file anew while it reads
LiveLength(t) == CachedSize(task[t].id)

\* line 1517: cached_size as the generator took it before the loop
ObservedLength(t) == task[t].seen

\* line 1518: max_bytes_to_serve
MaxBytesToServe(length, start, fileSize) == Min(length - start, fileSize - start)

\* serve_from_cache, lines 1520-1523: the number of bytes the read loop
\* yields: it stops at max_bytes_to_serve, or earlier at the end of the file
\* as it is when read (the file may have been truncated since; a file that
\* was unlinked stays as it was for the open handle)
BodyBytes(t) ==
    LET id == task[t].id
        start == task[t].start
        atEnd == IF task[t].cut THEN task[t].seen ELSE CachedSize(id)
    IN Max(0, Min(MaxBytesToServe(ObservedLength(t), start, DeclaredSize[id]),
                  atEnd - start))

\* the body of the response has been sent.  A body read from the cache file
\* stamps last_access when its loop is over (line 1527); a generator that
\* could not open the file ends with the exception
Finish(t) ==
    /\ \/ task[t].pc = "resp" /\ ~CanStream(t)
       \/ task[t].pc = "stream"
    /\ entry' = IF task[t].pc = "stream"
                THEN [entry EXCEPT ![task[t].id].last_access = now]
                ELSE entry
    /\ task' = [task EXCEPT ![t] = IdleTask]
    /\ UNCHANGED <<now, mode, remote, lock, blob, workers, jan, ended>>
    /\ UNCHANGED fresh

\* POST /api/files/clear-cache?file_id=.., lines 1792-1796 and 1817-1820:
\* without a cache file nothing is done; the removal of a file that is held
\* open raises and the request fails
ClearUnlink(t) ==
    /\ CanBegin(t)
    /\ \E id \in Ids :
          \/ /\ Exists(id)
             /\ blob' = [blob EXCEPT ![id] = NoFile]
             /\ workers' = Detach(workers, id)
             /\ task' = [task EXCEPT ![t] = [IdleTask EXCEPT !.pc = "clear_entry", !.id = id]]
          \/ /\ HeldOpen(id)
             /\ task' = [task EXCEPT ![t] = [IdleTask EXCEPT
                            !.pc = "resp", !.id = id, !.src = "error", !.status = 500]]
             /\ UNCHANGED <<blob, workers>>
          \/ /\ ~Exists(id)
             /\ task' = [task EXCEPT ![t] = [IdleTask EXCEPT
                            !.pc = "resp", !.id = id, !.src = "no_cache", !.status = 200]]
             /\ UNCHANGED <<blob, workers>>
    /\ UNCHANGED <<now, mode, remote, entry, lock, jan, ended>>
    /\ UNCHANGED fresh

\* lines 1799-1811
ClearEntry(t) ==
    /\ task[t].pc = "clear_entry"
    /\ lock[task[t].id] = "free"
    /\ entry' = [entry EXCEPT ![task[t].id] = ZeroEntry(0)]
    /\ UNCHANGED ended
    /\ task' = [task EXCEPT ![t].pc = "resp", ![t].src = "cleared", ![t].status = 200]
    /\ UNCHANGED <<now, mode, remote, lock, blob, workers, jan>>
    /\ fresh' = [fresh EXCEPT ![task[t].id] = @ \/ entry[task[t].id].downloading]

\* POST /api/files/clear-cache without a file id, lines 1826-1833: every
\* *.mp4 of the cache directory is removed; a file whose removal raises is
\* skipped
ClearAllUnlink(t) ==
    /\ CanBegin(t)
    /\ \E kept \in SUBSET {i \in DOMAIN blob : HeldOpen(i)} :
        /\ blob' = [i \in DOMAIN blob |-> IF i \in kept THEN blob[i] ELSE NoFile]
        /\ workers' = [k \in DOMAIN workers |->
                          IF workers[k].id \in kept THEN workers[k]
                          ELSE [workers[k] EXCEPT !.attached = FALSE]]
    /\ task' = [task EXCEPT ![t] = [IdleTask EXCEPT !.pc = "all_clear"]]
    /\ UNCHANGED <<now, mode, remote, entry, lock, jan, ended>>
    /\ UNCHANGED fresh

\* line 1836: download_status.clear()
ClearAllEntries(t) ==
    /\ task[t].pc = "all_clear"
    /\ entry' = [i \in DOMAIN entry |-> ZeroEntry(0)]
    /\ UNCHANGED ended
    /\ task' = [task EXCEPT ![t].pc = "resp", ![t].src = "cleared_all", ![t].status = 200]
    /\ UNCHANGED <<now, mode, remote, lock, blob, workers, jan>>
    /\ UNCHANGED fresh

\* video_heartbeat, lines 1852-1856
video_heartbeat(t) ==
    /\ CanBegin(t)
    /\ \E id \in AllIds :
        IF ~Known(id)
        THEN /\ task' = [task EXCEPT ![t] = NotFound(id)]
             /\ UNCHANGED entry
        ELSE /\ entry' = [entry EXCEPT ![id].last_access = now]
             /\ task' = [task EXCEPT ![t] = [IdleTask EXCEPT
                             !.pc = "resp", !.id = id, !.src = "alive", !.status = 200,
                             !.progress = get_download_progress(entry[id])]]
    /\ UNCHANGED <<now, mode, remote, lock, blob, workers, jan, ended>>
    /\ UNCHANGED fresh

\* get_download_status_single, lines 1760-1782: the entry is read, nothing
\* is written
get_download_status_single(t) ==
    /\ CanBegin(t)
    /\ \E id \in AllIds :
        task' = [task EXCEPT ![t] =
                    IF ~Known(id) THEN NotFound(id)
                    ELSE [IdleTask EXCEPT
                            !.pc = "resp", !.id = id, !.src = "status", !.status = 200,
                            !.progress = get_download_progress(entry[id])]]
    /\ UNCHANGED <<now, mode, remote, entry, lock, blob, workers, jan, ended>>
    /\ UNCHANGED fresh

\* ------------------------------------------------------------ the janitor
\* lines 381-394: what one entry must look like to be marked for cleanup
Eligible(e, currentTime) ==
    /\ ~e.downloading
    /\ ~(currentTime - e.last_access <= CACHE_CLEANUP_SECONDS)
    /\ ~(e.last_access = 0)

\* the sweep goes on with the next marked id, or is over and
\* cleanup_worker sleeps until the next one
Continue == IF jan.todo = {} THEN IdleJan ELSE [jan EXCEPT !.pc = "pick"]

\* lines 376-397: the scan of download_status
JanitorScan ==
    /\ jan.pc = "sleep"
    /\ LET marked == {i \in DOMAIN entry : Eligible(entry[i], now)}
       IN /\ marked # {}
          /\ jan' = [jan EXCEPT !.pc = "pick", !.todo = marked]
    /\ UNCHANGED <<now, mode, remote, entry, lock, blob, workers, task, ended>>
    /\ UNCHANGED fresh

\* lines 399-413: the next marked id; it is skipped when it has no cache
\* file, is downloading now, or was accessed in the last 5 seconds
JanitorPick ==
    /\ jan.pc = "pick"
    /\ \E id \in jan.todo :
        LET skip == \/ ~Exists(id)
                    \/ entry[id].downloading
                    \/ now - entry[id].last_access < VeryRecentSeconds
            rest == jan.todo \ {id}
        IN jan' = IF skip
                  THEN (IF rest = {} THEN IdleJan ELSE [jan EXCEPT !.todo = rest])
                  ELSE [jan EXCEPT !.pc = "unlink", !.todo = rest, !.id = id]
    /\ UNCHANGED <<now, mode, remote, entry, lock, blob, workers, task, ended>>
    /\ UNCHANGED fresh

\* lines 436-438: the handler of PermissionError prints and leaves the
\* entry of the id as it is
ResetAnyway(e) == ZeroEntry(0)
FileLocked(e) == e

\* lines 415-418 with the handlers of lines 436-454: stat and unlink
JanitorUnlink ==
    /\ jan.pc = "unlink"
    /\ LET id == jan.id
       IN \/ /\ Exists(id)
             /\ blob' = [blob EXCEPT ![id] = NoFile]
             /\ workers' = Detach(workers, id)
             /\ task' = [t \in DOMAIN task |->
                            IF task[t].id = id /\ task[t].pc = "stream"
                            THEN [task[t] EXCEPT !.cut = TRUE] ELSE task[t]]
             /\ jan' = [jan EXCEPT !.pc = "reset"]
             /\ UNCHANGED <<entry, ended>>
          \/ \* PermissionError: the file is held open
             /\ HeldOpen(id)
             /\ entry' = [entry EXCEPT ![id] = FileLocked(entry[id])]
             /\ jan' = Continue
             /\ UNCHANGED <<blob, workers, ended, task>>
          \/ \* FileNotFoundError: the entry is reset anyway
             /\ ~Exists(id)
             /\ entry' = [entry EXCEPT ![id] = ZeroEntry(0)]
             /\ UNCHANGED ended
             /\ jan' = Continue
             /\ UNCHANGED <<blob, workers, task>>
    /\ UNCHANGED <<now, mode, remote, lock>>
    /\ UNCHANGED fresh

\* lines 421-432
JanitorReset ==
    /\ jan.pc = "reset"
    /\ entry' = [entry EXCEPT ![jan.id] = ZeroEntry(0)]
    /\ UNCHANGED ended
    /\ jan' = Continue
    /\ UNCHANGED <<now, mode, remote, lock, blob, workers, task>>
    /\ UNCHANGED fresh

Next ==
    \/ Tick
    \/ \E k \in WorkerSlots : WorkerRead(k)
    \/ \E k \in WorkerSlots : WorkerGet(k)
    \/ \E k \in WorkerSlots : WorkerOpen(k)
    \/ \E k \in WorkerSlots : WorkerWrite(k)
    \/ \E k \in WorkerSlots : WorkerMarkNotDownloading(k)
    \/ \E k \in WorkerSlots : WorkerMarkCompleted(k)
    \/ \E k \in WorkerSlots : WorkerFail(k)
    \/ \E t \in Tasks : BeginStream(t)
    \/ \E t \in Tasks : ResetUnlink(t)
    \/ \E t \in Tasks : ResetEntry(t)
    \/ \E t \in Tasks : register_user_access(t)
    \/ \E t \in Tasks : RangeBlock(t)
    \/ \E t \in Tasks : CanServeBlock(t)
    \/ \E t \in Tasks : ServeHit(t)
    \/ \E t \in Tasks : ServeMiss(t)
    \/ \E t \in Tasks : StartCheck(t)
    \/ \E t \in Tasks : StartBegin(t)
    \/ \E t \in Tasks : ServeProxy(t)
    \/ \E t \in Tasks : StreamOpen(t)
    \/ \E t \in Tasks : Finish(t)
    \/ \E t \in Tasks : ClearUnlink(t)
    \/ \E t \in Tasks : ClearEntry(t)
    \/ \E t \in Tasks : ClearAllUnlink(t)
    \/ \E t \in Tasks : ClearAllEntries(t)
    \/ \E t \in Tasks : video_heartbeat(t)
    \/ \E t \in Tasks : get_download_status_single(t)
    \/ JanitorScan \/ JanitorPick \/ JanitorUnlink \/ JanitorReset

\* concurrent callers of start_full_download: every handler thread is at
\* the call of line 1655 for the same id, whose entry is neither
\* downloading nor completed
ConcurrentStart ==
    /\ mode = "threads"
    /\ \A t \in Tasks : task[t].pc = "idle"
    /\ \E id \in Ids :
        /\ ~entry[id].downloading /\ ~entry[id].completed
        /\ task' = [t \in Tasks |-> [IdleTask EXCEPT !.pc = "start", !.id = id]]
        /\ ended' = [ended EXCEPT ![id] = FALSE]
    /\ UNCHANGED <<now, mode, remote, entry, lock, blob, workers, jan>>
    /\ UNCHANGED fresh

NextThreads ==
    \/ ConcurrentStart
    \/ \E k \in WorkerSlots : WorkerRead(k)
    \/ \E k \in WorkerSlots : WorkerGet(k)
    \/ \E k \in WorkerSlots : WorkerOpen(k)
    \/ \E k \in WorkerSlots : WorkerWrite(k)
    \/ \E k \in WorkerSlots : WorkerMarkNotDownloading(k)
    \/ \E k \in WorkerSlots : WorkerMarkCompleted(k)
    \/ \E k \in WorkerSlots : WorkerFail(k)
    \/ \E t \in Tasks : StartCheck(t)
    \/ \E t \in Tasks : StartBegin(t)
    \/ \E t \in Tasks : ServeProxy(t)
    \/ \E t \in Tasks : Finish(t)

Spec == Init /\ [][Next]_vars

\* one step of the download_worker thread in slot k; the thread is a daemon
\* thread the interpreter keeps scheduling, and the remote stream ends or
\* errors, so a worker that can take a step eventually takes one
WorkerRun(k) ==
    \/ WorkerRead(k) \/ WorkerGet(k) \/ WorkerOpen(k) \/ WorkerWrite(k)
    \/ WorkerMarkNotDownloading(k) \/ WorkerMarkCompleted(k) \/ WorkerFail(k)

\* the threads and handlers that start, run and reset downloads: the
\* workers, the serve endpoint and the two clears
NextDownloads ==
    \/ \E k \in WorkerSlots : WorkerRead(k)
    \/ \E k \in WorkerSlots : WorkerGet(k)
    \/ \E k \in WorkerSlots : WorkerOpen(k)
    \/ \E k \in WorkerSlots : WorkerWrite(k)
    \/ \E k \in WorkerSlots : WorkerMarkNotDownloading(k)
    \/ \E k \in WorkerSlots : WorkerMarkCompleted(k)
    \/ \E k \in WorkerSlots : WorkerFail(k)
    \/ \E t \in Tasks : BeginStream(t)
    \/ \E t \in Tasks : ResetUnlink(t)
    \/ \E t \in Tasks : ResetEntry(t)
    \/ \E t \in Tasks : register_user_access(t)
    \/ \E t \in Tasks : RangeBlock(t)
    \/ \E t \in Tasks : CanServeBlock(t)
    \/ \E t \in Tasks : ServeHit(t)
    \/ \E t \in Tasks : ServeMiss(t)
    \/ \E t \in Tasks : StartCheck(t)
    \/ \E t \in Tasks : StartBegin(t)
    \/ \E t \in Tasks : ServeProxy(t)
    \/ \E t \in Tasks : StreamOpen(t)
    \/ \E t \in Tasks : Finish(t)
    \/ \E t \in Tasks : ClearUnlink(t)
    \/ \E t \in Tasks : ClearEntry(t)
    \/ \E t \in Tasks : ClearAllUnlink(t)
    \/ \E t \in Tasks : ClearAllEntries(t)

SpecFair ==
    /\ Init /\ [][NextDownloads]_vars
    /\ \A k \in WorkerSlots : WF_vars(WorkerRun(k))
SpecThreads == InitThreads /\ [][NextThreads]_vars

\* ------------------------------------------------------------- properties
\* every concurrent caller of start_full_download(id) has returned from it
AllReturned(id) ==
    /\ mode = "threads"
    /\ \A t \in Tasks : task[t].id = id /\ task[t].pc = "proxy" /\ task[t].call # "none"

\* the callers whose call gave a "download begin" event
Begun(id) == {t \in Tasks : task[t].id = id /\ task[t].call = "begin"}

\* C1 as stated: concurrent calls of start_full_download for an id that is
\* neither downloading nor completed give exactly one "download begin" event
C1_OneBeginAsStated ==
    \A id \in Ids : AllReturned(id) => Cardinality(Begun(id)) = 1

\* C1, amended: concurrent calls of start_full_download for an id that is
\* neither downloading nor completed give exactly one "download begin" event
\* when no worker of the id ends while the calls run; the other calls return
\* without starting a worker
C1_OneBeginUnlessWorkerEnds ==
    \A id \in Ids : (AllReturned(id) /\ ~ended[id]) => Cardinality(Begun(id)) = 1

C1_Witness ==
    \E id \in Ids :
        /\ AllReturned(id) /\ ~ended[id]
        /\ \E t \in Tasks : task[t].call = "noop"
        /\ \E t \in Tasks : task[t].call = "begin"
        /\ entry[id].downloading

\* C2: at most one download worker is active (fetching or writing) for a
\* file id in every reachable state
C2_OneActiveWorker ==
    \A id \in Ids : Cardinality(ActiveWorkers(id)) <= 1

\* the janitor takes a step of its sweep on the id
JanitorActs(id) == jan.pc \in {"unlink", "reset"} /\ jan.id = id /\ jan' # jan

\* C3: the janitor sweep never deletes the cache file and never resets the
\* entry of an id at a moment when the entry has downloading = true
C3_JanitorSparesDownloading ==
    [][\A id \in Ids :
          (JanitorActs(id) /\ entry[id].downloading)
              => (blob'[id] = blob[id] /\ entry'[id] = entry[id])]_vars

\* C4: in every reachable state completed = true implies downloading = false
C4_CompletedNotDownloading ==
    \A id \in Ids : entry[id].completed => ~entry[id].downloading

\* C5: in every reachable state completed = true implies that the cache file
\* exists and its length equals the entry's total_bytes
C5_CompletedBlobWhole ==
    \A id \in Ids :
        entry[id].completed => (Exists(id) /\ CachedSize(id) = entry[id].total_bytes)

\* C6: within one download epoch of an id (the entry stays downloading)
\* bytes_downloaded never decreases, and with total_bytes > 0 it is at most
\* total_bytes
C6_ProgressMonotoneBounded ==
    [][\A id \in Ids :
          (entry[id].downloading /\ entry'[id].downloading)
              => /\ entry'[id].bytes_downloaded >= entry[id].bytes_downloaded
                 /\ entry'[id].total_bytes > 0
                        => entry'[id].bytes_downloaded <= entry'[id].total_bytes]_vars

\* C7: a request whose Range start is at or beyond the length L of an
\* incomplete cache file is given the start offset L - 1, and a response
\* served from the cache file holds no byte at or beyond the file's length
C7_SeekBeyondCacheClamped ==
    [][\A t \in Tasks :
          LET id == task[t].id
          IN /\ (/\ task[t].pc = "range" /\ task'[t].pc = "can_serve"
                 /\ Exists(id) /\ ~entry[id].completed
                 /\ task[t].range >= CachedSize(id))
                    => task'[t].start = CachedSize(id) - 1
             /\ (task[t].pc = "hit" /\ task'[t].src = "blob")
                    => task[t].start + task'[t].clen <= CachedSize(id)]_vars

\* the per-id reset of the task returns at this step: the reset of
\* smart-stream, or clear-cache with a file id
ResetReturns(t) ==
    \/ task[t].pc = "reset_entry" /\ task'[t].pc = "register"
    \/ task[t].pc = "clear_entry" /\ task'[t].pc = "resp"
    \/ task[t].pc = "idle" /\ task'[t].src = "no_cache"

\* no download_worker thread of the id is alive
Quiet(id) == \A k \in DOMAIN workers : workers[k].id # id

\* C8: the per-id reset, applied to any entry with no worker running (a
\* first time, a second time in a row, or on an id without activity), leaves
\* the entry zeroed and no cache file
C8_ResetLeavesZeroed ==
    [][\A t \in Tasks :
          (ResetReturns(t) /\ Quiet(task[t].id))
              => (IsZeroed(entry'[task[t].id]) /\ blob'[task[t].id] = NoFile)]_vars

\* C9: when the per-id reset is applied to an id that is downloading, on
\* return the cache file is deleted and the entry is zeroed, and the entry
\* stays zeroed until the next start_full_download of the id begins
C9_ResetMidDownloadStaysZeroed ==
    [][\A id \in Ids :
          /\ (~fresh[id] /\ fresh'[id])
                => (IsZeroed(entry'[id]) /\ blob'[id] = NoFile)
          /\ (fresh[id] /\ fresh'[id]) => IsZeroed(entry'[id])]_vars

\* the sweep passes over the marked id at this step without deleting
PassedOver(id) ==
    /\ jan.pc = "pick" /\ id \in jan.todo
    /\ id \notin jan'.todo /\ jan'.pc # "unlink"

\* C10: in a janitor sweep every id with downloading = false, last_access # 0
\* and idle > 20 s has its cache file deleted and its entry zeroed; an id
\* with idle <= 20 s keeps its cache file and its entry
C10_SweepEvictsIdleOnly ==
    [][\A id \in Ids :
          /\ (PassedOver(id) /\ Eligible(entry[id], now))
                => (IsZeroed(entry'[id]) /\ blob'[id] = NoFile)
          /\ (JanitorActs(id) /\ now - entry[id].last_access <= CACHE_CLEANUP_SECONDS)
                => (blob'[id] = blob[id] /\ entry'[id] = entry[id])]_vars

\* the sweep deletes the cache file of the id at this step
JanitorDeletes(id) ==
    /\ jan.pc = "unlink" /\ jan.id = id
    /\ blob[id] # NoFile /\ blob'[id] = NoFile /\ jan'.pc = "reset"

\* C11: at the moment a sweep deletes the cache file of an id, the id's
\* last_access is at least 5 seconds old, whatever serve requests and
\* heartbeats run beside the sweep
C11_NoEvictionInGraceWindow ==
    [][\A id \in Ids :
          JanitorDeletes(id) => now - entry[id].last_access >= VeryRecentSeconds]_vars

\* C12: an entry whose last_access is 0 is never evicted: no step of a sweep
\* deletes its cache file or changes the entry
C12_NeverAccessedImmune ==
    [][\A id \in Ids :
          (JanitorActs(id) /\ entry[id].last_access = 0)
              => (blob'[id] = blob[id] /\ entry'[id] = entry[id])]_vars

\* the id is fully cached: completed, and the cache file has the total size
FullyCached(id) ==
    /\ entry[id].completed /\ ~entry[id].downloading
    /\ CachedSize(id) = DeclaredSize[id] /\ entry[id].total_bytes = DeclaredSize[id]

\* C13: for a fully cached id of size T and a request "Range: bytes=s-e" with
\* 0 < s <= e <= T-1 the response has status 206, starts at s, has
\* Content-Range "bytes s-e/T" and Content-Length e-s+1
C13_RangeOfCompleteFile ==
    [][\A t \in Tasks :
          LET id == task[t].id
              s == task[t].range
              e == task[t].rend
          IN (/\ task[t].pc = "hit" /\ task'[t].pc = "resp"
              /\ FullyCached(id)
              /\ 0 < s /\ s <= e /\ e <= DeclaredSize[id] - 1)
                => /\ task'[t].status = 206
                   /\ task'[t].start = s
                   /\ ContentRangeEnd(task'[t].start, task'[t].clen, DeclaredSize[id]) = e
                   /\ task'[t].clen = e - s + 1]_vars

\* C14: a serve request for an id that has no cache file goes on to the
\* remote source only after it has found a worker of the id active or its
\* start_full_download has begun one, whatever the entry's flags are
C14_MissEnsuresWorker ==
    [][\A t \in Tasks :
          LET id == task[t].id
          IN (/\ task[t].pc \in {"miss", "start"} /\ task'[t].pc = "proxy"
              /\ ~Exists(id))
                => ActiveWorkers(id) # {}]_vars

\* C15: the Content-Length of a response served from the cache file (from a
\* start offset >= 0) equals the number of bytes its body yields, also when
\* the worker appends to the file or the file is deleted between the headers
\* and the body
C15_ContentLengthIsBodyLength ==
    [][\A t \in Tasks :
          (/\ task[t].pc \in {"resp", "stream"} /\ task[t].src = "blob"
           /\ task'[t].pc = "idle"
           /\ task[t].start >= 0)
              => task[t].clen = IF task[t].pc = "stream" THEN BodyBytes(t) ELSE 0]_vars

\* C16: a serve, status or heartbeat request for an id the catalog does not
\* hold is answered with 404 and leaves the cache store as it is: the id has
\* no entry but the default one, no last_access, no worker and no cache file
C16_UnknownIdUntouched ==
    \A x \in Unknown :
        /\ entry[x] = ZeroEntry(0)
        /\ blob[x] = NoFile
        /\ \A k \in DOMAIN workers : workers[k].id # x
        /\ \A t \in Tasks :
              task[t].id = x => (task[t].pc = "resp" /\ task[t].status = 404)

C16_Witness ==
    \E t \in Tasks :
        /\ task[t].id \in Unknown /\ task[t].src = "not_found"
        /\ \E id \in Ids : entry[id].downloading /\ Exists(id)

\* the state of an id that its entry gives; lines 304-305 of a worker that
\* has written its file are one transition, DOWNLOADING until line 305
Finishing(id) ==
    \E k \in DOMAIN workers : workers[k].id = id /\ workers[k].pc = "mark_completed"

StateOf(e, finishing) ==
    IF e.completed THEN "COMPLETED"
    ELSE IF e.downloading \/ finishing THEN "DOWNLOADING"
    ELSE "EMPTY"

\* C17: the state of an id changes only along EMPTY -> DOWNLOADING,
\* DOWNLOADING -> COMPLETED, DOWNLOADING -> EMPTY and COMPLETED -> EMPTY; no
\* step takes an id from EMPTY to COMPLETED
C17_StateMachineEdges ==
    [][\A id \in Ids :
          LET before == StateOf(entry[id], Finishing(id))
              after == StateOf(entry'[id], Finishing(id)')
          IN \/ before = after
             \/ <<before, after>> \in
                   {<<"EMPTY", "DOWNLOADING">>, <<"DOWNLOADING", "COMPLETED">>,
                    <<"DOWNLOADING", "EMPTY">>, <<"COMPLETED", "EMPTY">>}]_vars

\* C18: every percentage a response reports lies in [0, 100]: the progress of
\* the status and heartbeat endpoints and the X-Cache-Progress header of a
\* response served from the cache file
C18_PercentagesBounded ==
    \A t \in Tasks :
        (task[t].pc = "resp" /\ task[t].src \in {"blob", "alive", "status"})
            => (task[t].progress >= 0 /\ task[t].progress <= 1000)

\* what a failed worker leaves: a partial cache file with the bytes it
\* counted, both flags false and no worker of the id
FailedPartial(id) ==
    /\ ~entry[id].downloading /\ ~entry[id].completed
    /\ entry[id].bytes_downloaded > 0
    /\ Exists(id) /\ CachedSize(id) > 0
    /\ Quiet(id)

\* C19: a serve request that finds the partial file of a failed worker
\* (downloading=false, completed=false, no worker) when it chooses between
\* the cache file and the remote source takes the path that calls
\* start_full_download, so that a new worker begins; it does not answer from
\* the partial file without a start
C19_FailedDownloadRestarts ==
    [][\A t \in Tasks :
          (/\ task[t].pc = "can_serve"
           /\ task'[t].pc # "can_serve"
           /\ FailedPartial(task[t].id))
             => task'[t].pc = "miss"]_vars

\* C20: at the step that ends a worker the entry of its id shows the outcome:
\* after line 305 of a worker that wrote its whole stream downloading=false
\* and completed=true; after a non-200 answer or an exception
\* downloading=false and completed=false, the cache file left as it was
C20_EntryReflectsOutcome ==
    [][\A k \in DOMAIN workers :
          workers' = Remove(workers, k) =>
              LET id == workers[k].id
                  e == entry'[id]
              IN IF workers[k].pc = "mark_completed"
                 THEN ~e.downloading /\ e.completed
                 ELSE ~e.downloading /\ ~e.completed /\ blob'[id] = blob[id]]_vars

\* a step of a download_worker thread: no handler, janitor or clock moved
WorkerStep == workers' # workers /\ task' = task /\ jan' = jan /\ now' = now

\* C21: once an explicit reset has replaced the entry of an id whose download
\* was running, the worker of that download writes neither the entry
\* (bytes_downloaded, total_bytes, downloading, completed) nor the cache file
\* of the id again
C21_ResetStopsWorker ==
    [][\A id \in Ids :
          (fresh[id] /\ WorkerStep) =>
              /\ entry'[id] = entry[id]
              /\ blob'[id] = blob[id]]_vars

\* a per-id reset (reset=true of smart-stream, or clear-cache with a file
\* id) has done its unlink and has not replaced the entry yet
MidReset(t) == task[t].pc \in {"reset_entry", "clear_entry"}

\* C22: the per-id reset removes the cache file and replaces the entry as one
\* step: between the two no download of the id is started and no worker
\* creates the cache file of the id again, and the entry the reset puts in
\* place is zeroed with last_access = now
C22_ResetIsOneStep ==
    [][\A t \in Tasks :
          MidReset(t) =>
              LET id == task[t].id
              IN IF task'[t].pc = task[t].pc
                 THEN /\ entry'[id].downloading => entry[id].downloading
                      /\ Len(workers') <= Len(workers)
                      /\ blob'[id] # NoFile => blob[id] # NoFile
                 ELSE entry'[id] = ZeroEntry(now)]_vars

\* the next statement of the handler runs inside "with download_locks[id]":
\* lines 222-232, 364-367, 1349-1361 and 1799-1811
InLockedSection(t) ==
    task[t].pc \in {"start_set", "register", "reset_entry", "clear_entry"}

\* the step is taken by a handler inside the locked section of the id
LockedStep(id) ==
    \E t \in Tasks :
        /\ task[t].id = id
        /\ InLockedSection(t)
        /\ task'[t].pc # task[t].pc

\* C23: every step that writes the downloading or completed flag of an entry,
\* or puts a zeroed entry in its place, is taken by a writer that holds the
\* lock of the id
C23_FlagWritesUnderLock ==
    [][\A id \in Ids :
          (\/ entry'[id].downloading # entry[id].downloading
           \/ entry'[id].completed # entry[id].completed
           \/ (~IsZeroed(entry[id]) /\ IsZeroed(entry'[id])))
             => LockedStep(id)]_vars

\* C24: a call of start_full_download that finds the entry downloading or
\* completed returns with the entry, the cache file, the lock and the
\* workers as they were; a call that finds both flags false goes on, and
\* when it returns downloading is true, total_bytes is the expected size and
\* the worker it started has not taken a step
C24_StartFrame ==
    [][\A t \in Tasks :
          LET id == task[t].id
              e == entry[id]
          IN /\ (task[t].pc = "start" /\ task'[t].pc # "start") =>
                   IF e.downloading \/ e.completed
                   THEN /\ UNCHANGED <<entry, blob, workers, lock>>
                        /\ task'[t].pc = "proxy" /\ task'[t].call = "noop"
                   ELSE task'[t].pc = "start_set"
             /\ (task[t].pc = "start_set" /\ task'[t].pc # "start_set") =>
                   /\ entry'[id].downloading
                   /\ entry'[id].total_bytes = DeclaredSize[id]
                   /\ workers' = Append(workers, NewWorker(id))
                   /\ task'[t].call = "begin"]_vars

\* a call has returned without doing anything from an entry whose download
\* completed while the file is in the cache
C24_Witness ==
    \E t \in Tasks :
        /\ task[t].pc = "proxy" /\ task[t].call = "noop"
        /\ entry[task[t].id].completed
        /\ \E k \in DOMAIN workers : workers[k].id = task[t].id

\* worker k writes the first chunk of its download in this step, to the
\* file its open created or truncated and the path still names
FirstWrite(k) ==
    /\ k \in DOMAIN workers
    /\ workers[k].pc = "write" /\ workers[k].bytes = 0 /\ workers[k].attached
    /\ Len(workers') = Len(workers)
    /\ workers'[k].bytes > 0

\* C25: a download starts from byte 0: when its worker has written its first
\* chunk the cache file holds exactly that chunk, with nothing of an earlier
\* download behind it, and bytes_downloaded is the length of the chunk
C25_EpochStartsAtZero ==
    [][\A k \in WorkerSlots :
          FirstWrite(k) =>
              /\ blob'[workers[k].id] = workers'[k].bytes
              /\ entry'[workers[k].id].bytes_downloaded = workers'[k].bytes]_vars

C28_CompletedServesAnyStart ==
    [][\A t \in Tasks :
          LET id == task[t].id
              s == task[t].range
              ok == /\ entry[id].completed /\ Exists(id)
                    /\ 0 <= s /\ s <= DeclaredSize[id] - 1
          IN /\ (task[t].pc = "range" /\ task'[t].pc # "range" /\ ok) =>
                    task'[t].start = s
             /\ (task[t].pc = "hit" /\ task'[t].pc # "hit" /\ ok /\ task[t].start = s) =>
                    /\ task'[t].src = "blob"
                    /\ task'[t].start = s
                    /\ task'[t].clen >= 0
                    /\ s + task'[t].clen <= CachedSize(id)]_vars

\* the worker of the id found a remote length other than the expected size,
\* stored it in total_bytes and ran to completion
Corrected(id) ==
    /\ entry[id].completed /\ ~entry[id].downloading
    /\ remote[id] # DeclaredSize[id]
    /\ entry[id].total_bytes = remote[id]
    /\ CachedSize(id) = remote[id]
    /\ Quiet(id)

\* C29: once a worker has adopted a remote length that differs from the
\* expected size and has completed, the total after "/" in the Content-Range
\* header of every response served from the cache file is that corrected
\* total_bytes
C29_ContentRangeTotalCorrected ==
    [][\A t \in Tasks :
          LET id == task[t].id
          IN (/\ task[t].pc = "hit" /\ task'[t].pc = "resp" /\ task'[t].src = "blob"
              /\ Corrected(id)
              /\ HasContentRange(task'[t].start, task'[t].clen, DeclaredSize[id]))
                => ContentRangeTotal(id) = entry[id].total_bytes]_vars

\* C30: for every id whose total_bytes is known (> 0) the cache file is
\* never longer than total_bytes, also when the remote source delivers more
\* bytes than the expected size and sends no Content-Length
C30_BlobWithinTotal ==
    \A id \in Ids :
        (entry[id].total_bytes > 0 /\ Exists(id)) => CachedSize(id) <= entry[id].total_bytes

\* C31: when the clear of the whole cache returns no cache file exists and
\* every entry is as the empty table gives it; after the return a worker
\* that was running during the clear writes no entry and no cache file
C31_ClearAllLeavesNothing ==
    [][\A t \in Tasks :
          /\ (task[t].pc = "all_clear" /\ task'[t].pc = "resp") =>
                \A i \in AllIds : blob'[i] = NoFile /\ entry'[i] = ZeroEntry(0)
          /\ (task[t].pc = "resp" /\ task[t].src = "cleared_all" /\ WorkerStep) =>
                entry' = entry /\ blob' = blob]_vars

\* C32: an id that the sweep holds eligible when it comes to it (not
\* downloading, last_access # 0, idle for more than 20 s, not accessed in
\* the last 5 s) has a zeroed entry when the sweep is done with it, also
\* when the id has no cache file then or the file is gone at the unlink
C32_EligibleEntryZeroed ==
    [][\A id \in Ids :
          /\ (/\ PassedOver(id)
              /\ Eligible(entry[id], now)
              /\ ~(now - entry[id].last_access < VeryRecentSeconds))
                => IsZeroed(entry'[id])
          /\ (jan.pc = "unlink" /\ jan.id = id /\ jan' # jan /\ ~Exists(id))
                => IsZeroed(entry'[id])
          /\ (jan.pc = "reset" /\ jan.id = id /\ jan' # jan)
                => IsZeroed(entry'[id])]_vars

\* the unlink of the sweep fails at this step on a file that exists
UnlinkRefused ==
    /\ jan.pc = "unlink" /\ jan' # jan
    /\ Exists(jan.id) /\ jan'.pc # "reset"

AtRest(id) ==
    /\ Exists(id) /\ Quiet(id) /\ ~entry[id].downloading
    /\ \A t \in Tasks : task[t].pc = "idle"
    /\ jan.pc = "sleep"

\* C34: no reachable state holds a cache file that the janitor will skip
\* forever: a cache file at rest, whose id is not downloading, belongs to an
\* entry the scan can mark once it has been idle long enough, one whose
\* last_access is not 0
C34_NoBlobSkippedForever ==
    \A id \in Ids : AtRest(id) => entry[id].last_access # 0

\* C35: the serve endpoint answers 302 only to a request that carries a
\* Range header and whose effective start offset is > 0; the Location of the
\* redirect names the resource and no range, and a request without a Range
\* header, the one that follows the redirect, is never answered 302
C35_RedirectIsSingleHop ==
    \A t \in Tasks :
        /\ (task[t].pc = "resp" /\ task[t].status = 302) =>
              /\ task[t].src = "redirect"
              /\ task[t].range # NoRange
              /\ task[t].start > 0
        /\ (task[t].pc = "resp" /\ task[t].range = NoRange) => task[t].status # 302

C35_Witness ==
    \E t \in Tasks :
        /\ task[t].pc = "resp" /\ task[t].status = 302
        /\ task[t].range = 19 /\ task[t].start > 0

\* the oldest download_worker thread ends at this step
OldestEnds == workers # <<>> /\ workers' = Tail(workers)

\* C36: downloading = true is transient: a worker that was started ends
\* (always again either no worker is alive or the oldest one ends), an entry
\* with downloading = true comes to downloading = false, and downloading is
\* never true for an id none of whose workers is alive
C36_DownloadingIsTransient ==
    /\ [](\A id \in Ids : entry[id].downloading => ~Quiet(id))
    /\ \A id \in Ids : entry[id].downloading ~> ~entry[id].downloading
    /\ ([]<>(workers = <<>>) \/ []<><<OldestEnds>>_vars)

C36_Witness ==
    \E id \in Ids :
        /\ Quiet(id) /\ ~entry[id].downloading
        /\ entry[id].bytes_downloaded > 0

\* C37: the lock of an id is held by a request handler only, and only
\* while the handler is at the flag writes of start_full_download; a step
\* a handler takes inside one of the with-blocks writes no cache file and
\* lets no time pass, and the handler has given the lock up when it goes on
\* to the fetch from the remote source or to the cache file
C37_LockCoversFlagWritesOnly ==
    [][\A t \in Tasks :
          /\ (InLockedSection(t) /\ task'[t] # task[t]) => (blob' = blob /\ now' = now)
          /\ \A id \in AllIds :
                /\ lock'[id] \in Tasks \cup {"free"}
                /\ lock'[id] = t => (task'[t].pc = "start_set" /\ task'[t].id = id)]_vars

C37_Witness ==
    \E t \in Tasks :
        /\ task[t].pc = "start_set" /\ lock[task[t].id] = t
        /\ \E k \in DOMAIN workers :
              workers[k].id = task[t].id /\ workers[k].pc = "write"

\* C38: when a serve request has chosen between the cache file and the
\* remote source (lines 1476-1495), its start offset is >= 0; when it has
\* chosen the cache file, the file holds at least one byte and the start
\* offset is less than the length the file has at that moment
C38_StartWithinBlob ==
    [][\A t \in Tasks :
          (task[t].pc = "can_serve" /\ task'[t].pc \in {"hit", "miss"}) =>
              /\ task'[t].start >= 0
              /\ task'[t].pc = "hit" =>
                    /\ CachedSize(task[t].id) > 0
                    /\ task'[t].start < CachedSize(task[t].id)]_vars
====
